---- MODULE Spec2Model ----
(***************************************************************************)
(* State-machine model of src/server.js: the ephemeral access tokens, the  *)
(* proxy indirection store, the access gate and the retrying translation   *)
(* caller.  src/server.js holds five builds of the server one after the    *)
(* other; the variable `build` says which one is running.                  *)
(*                                                                         *)
(* Strings the code inspects character by character (tokens, slugs, texts) *)
(* are sequences of one-character strings.  Time is the event-loop clock   *)
(* in milliseconds, as far as the eviction timers (minutes) need it: a     *)
(* fetch and a backoff wait (seconds) end between two steps of the clock.  *)
(* Requests are those that reach a route: the cors, rate-limit and static  *)
(* middleware in front of the routes are not part of the model.            *)
(***************************************************************************)
EXTENDS Integers, Sequences, FiniteSets, TLC

VARIABLES
    build,        \* which of the five builds runs
    pool,         \* GEMINI_KEYS, read once at start
    clock,        \* event-loop time, ms
    draws,        \* number of crypto.randomBytes draws so far
    validTokens,  \* the Set validTokens
    proxyUrls,    \* the Map proxyUrls
    timers,       \* pending setTimeout evictions
    issuedAt,     \* history: access token -> time generateToken returned it
    created,      \* history: proxy token -> how /api/proxy created it
    call,         \* the translateTextGemini call in flight, if any
    last          \* the last request served and its response

vars == <<build, pool, clock, draws, validTokens, proxyUrls, timers,
          issuedAt, created, call, last>>

-----------------------------------------------------------------------------
(* Bounds of the model *)

\* tokens issued, proxy tokens created and translate calls started in one
\* behaviour, together
MaxWork == 2
\* largest maxRetries tried when translateTextGemini is called directly
MaxRetriesTried == 3
\* steps the clock takes on its own; after them it only moves to the next
\* time something is scheduled for
MaxTicks == 1

-----------------------------------------------------------------------------
(* The five builds in src/server.js *)

\* lines 1-60: catalog only, nothing gated
BuildOpen == "open"
\* lines 62-418: tokens, gate, proxy indirection, translation
BuildProxy == "proxy"
\* lines 419-500: tokens checked inline
BuildInline == "inline"
\* lines 502-701: tokens, gate, translation
BuildTranslate == "translate"
\* lines 703-809: tokens, gate
BuildScript == "script"

Builds == {BuildOpen, BuildProxy, BuildInline, BuildTranslate, BuildScript}

-----------------------------------------------------------------------------
(* Values *)

\* a missing header, query parameter or object field
Undefined == <<"<undefined>">>

\* a variant that takes the empty string for a value
FalsyOnlyUndefined(v) == v = Undefined

\* JavaScript falsiness of a string-or-undefined value: !v
Falsy(v) == v = Undefined \/ v = <<>>

Min(a, b) == IF a <= b THEN a ELSE b

HexDigits == <<"0", "1", "2", "3", "4", "5", "6", "7",
               "8", "9", "a", "b", "c", "d", "e", "f">>

\* a variant that writes the digits above 9 in upper case
ToHexUpper(bytes) ==
    [i \in 1..(2 * Len(bytes)) |->
        LET b == bytes[(i + 1) \div 2]
            d == IF i % 2 = 1 THEN b \div 16 ELSE b % 16
        IN  IF d >= 10 THEN <<"A", "B", "C", "D", "E", "F">>[d - 9]
            ELSE HexDigits[d + 1]]

\* Buffer.toString("hex"): two lowercase hexadecimal digits per byte
ToHex(bytes) ==
    [i \in 1..(2 * Len(bytes)) |->
        LET b == bytes[(i + 1) \div 2]
        IN  IF i % 2 = 1 THEN HexDigits[(b \div 16) + 1]
            ELSE HexDigits[(b % 16) + 1]]

\* a variant whose draws all give the same bytes
RandomBytesRepeating(n, k) == [i \in 1..n |-> (37 + i * 101) % 256]

\* crypto.randomBytes(n): the k-th draw of the process.  Draws are distinct
\* from one another (the code does not handle collisions and the model does
\* not produce them).
RandomBytes(n, k) == [i \in 1..n |-> (k * 37 + i * 101) % 256]

-----------------------------------------------------------------------------
(* The catalog (data/games.json, read at start; not in src/) *)

\* `url` is the game's real resource locator: the field url of games.json
\* in the builds of lines 1-418 and 502-701, the field iframe in the other two.
Games == <<
    [id |-> <<"g", "1">>, title |-> <<"P", "o", "n", "g">>,
     category |-> "Arcade", url |-> "https://cdn.example/pong/"],
    [id |-> <<"g", "2">>, title |-> <<"C", "a", "f", "E'", " ", "2", "!">>,
     category |-> "Puzzle", url |-> "https://cdn.example/cafe/"],
    [id |-> <<"g", "3">>, title |-> <<"D", "e", "m", "o">>,
     category |-> "arcade", url |-> ""] >>

RealUrls == {Games[i].url : i \in 1..Len(Games)} \ {""}

Alnum == {"a", "b", "c", "d", "e", "f", "g", "h", "i", "j", "k", "l", "m",
          "n", "o", "p", "q", "r", "s", "t", "u", "v", "w", "x", "y", "z",
          "0", "1", "2", "3", "4", "5", "6", "7", "8", "9"}

\* String.prototype.normalize("NFD") on one character: "E'" stands for the
\* precomposed e-acute, "'" for the combining acute accent U+0301
Nfd(c) == IF c = "E'" THEN <<"E", "'">> ELSE <<c>>

\* String.prototype.toLowerCase on one character
LowerChar(c) ==
    CASE c = "P" -> "p" [] c = "C" -> "c" [] c = "D" -> "d" [] c = "E" -> "e"
      [] c = "A" -> "a" [] c = "I" -> "i" [] OTHER -> c

\* .normalize("NFD") on a string
RECURSIVE NfdAll(_)
NfdAll(s) ==
    IF s = <<>> THEN <<>> ELSE Nfd(Head(s)) \o NfdAll(Tail(s))

\* .replace(/[^a-z0-9]+/g, "-"): every run of other characters becomes one "-"
RECURSIVE DashRuns(_)
DashRuns(s) ==
    IF s = <<>> THEN <<>>
    ELSE LET rest == DashRuns(Tail(s))
         IN  IF Head(s) \in Alnum THEN <<Head(s)>> \o rest
             ELSE IF Tail(s) # <<>> /\ Head(Tail(s)) \notin Alnum THEN rest
             ELSE <<"-">> \o rest

\* .replace(/^-+|-+$/g, "")
RECURSIVE TrimDashes(_)
TrimDashes(s) ==
    IF s = <<>> THEN <<>>
    ELSE IF Head(s) = "-" THEN TrimDashes(Tail(s))
    ELSE IF s[Len(s)] = "-" THEN TrimDashes(SubSeq(s, 1, Len(s) - 1))
    ELSE s

\* .toLowerCase() and .replace(/[\u0300-\u036f]/g, "") on one character
StripMarks(c) == IF c = "'" THEN <<>> ELSE <<LowerChar(c)>>

RECURSIVE StripAll(_)
StripAll(s) ==
    IF s = <<>> THEN <<>> ELSE StripMarks(Head(s)) \o StripAll(Tail(s))

slugify(text) ==
    IF Falsy(text) THEN <<"u", "n", "k", "n", "o", "w", "n">>
    ELSE TrimDashes(DashRuns(StripAll(NfdAll(text))))

\* slugify(g.title) of every game of the catalog
SlugOf == [t \in {Games[i].title : i \in 1..Len(Games)} |-> slugify(t)]

\* the identifier a build looks a game up by
GameKey(b, g) == IF b = BuildProxy THEN SlugOf[g.title] ELSE g.id

\* games.find(...): the first game with that identifier, 0 when there is none
FindGame(b, id) ==
    LET hits == {i \in 1..Len(Games) : GameKey(b, Games[i]) = id}
    IN  IF hits = {} THEN 0 ELSE CHOOSE i \in hits : \A j \in hits : i <= j

-----------------------------------------------------------------------------
(* Requests and responses *)

\* bytes of entropy of an access token: randomBytes(16) or randomBytes(8)
TokenBytes(b) == IF b = BuildProxy THEN 16 ELSE 8

\* variants: the access delay without the factor 1000, the proxy delay
\* copied from the access delay
AccessTtlInSeconds == 5 * 60

ProxyTtlOfAccess == 5 * 60 * 1000

\* setTimeout delays of the two evictions, ms
AccessTtl == 5 * 60 * 1000
ProxyTtl == 15 * 60 * 1000

\* a well-formed token value that no draw ever produces
Forged == ToHex(RandomBytes(16, 0))

\* what a client may present as an access token
TokenInputs == {Undefined, <<>>, Forged} \cup DOMAIN issuedAt

\* bearer: req.headers.authorization?.split("Bearer ")[1]; qtoken:
\* req.query.token.  A request carries a token in the query, or in the
\* header, or an empty or forged one in the header and another in the query.
Requests ==
    {[bearer |-> Undefined, qtoken |-> t] : t \in TokenInputs}
    \cup {[bearer |-> t, qtoken |-> Undefined] : t \in DOMAIN issuedAt}
    \cup {[bearer |-> h, qtoken |-> t] : h \in {<<>>, Forged}, t \in DOMAIN issuedAt}

\* the token checkToken looks at
PresentedToken(b, req) ==
    IF b = BuildProxy /\ ~Falsy(req.bearer) THEN req.bearer ELSE req.qtoken

\* a variant that never looks the token up
TokenOkNoLookup(token) == ~Falsy(token)

\* validate: the condition under which checkToken calls next()
TokenOk(token) == ~Falsy(token) /\ token \in validTokens

checkToken(b, req) == TokenOk(PresentedToken(b, req))

\* the routes a build registers, and those behind the gate
Routes(b) ==
    CASE b = BuildOpen -> {"categories", "games"}
      [] b = BuildProxy -> {"token", "categories", "games", "play",
                            "translate", "proxy", "resolve"}
      [] b = BuildInline -> {"token", "games", "play"}
      [] b = BuildTranslate -> {"token", "categories", "games", "play",
                                "translate"}
      [] b = BuildScript -> {"token", "categories", "games", "play"}

Gated(b) ==
    IF b = BuildOpen THEN {} ELSE Routes(b) \ {"token", "resolve"}

\* the gate of a route: open when the route is not gated
GateDenies(b, op, req) == op \in Gated(b) /\ ~checkToken(b, req)

NoBody ==
    [urls |-> {}, base |-> "", token |-> <<>>, items |-> <<>>, text |-> <<>>]

\* a response: its status, the real URLs it carries, the token it carries,
\* the catalog items it lists, the text it carries
Response(op, status, body) ==
    [op |-> op, status |-> status, urls |-> body.urls, base |-> body.base,
     token |-> body.token, items |-> body.items, text |-> body.text]

Denied(op) == Response(op, 403, NoBody)

TimerDue == \E t \in timers : t.due <= clock

\* the state-changing requests served so far
Work == Cardinality(DOMAIN issuedAt) + Cardinality(DOMAIN created) + call.n

\* The event loop runs expired timers before it serves the requests that
\* have arrived, so a handler runs only when no eviction is due.
CanServe == ~TimerDue

-----------------------------------------------------------------------------
(* Initial state *)

NoCall ==
    [pc |-> "idle", via |-> "", text |-> <<>>, maxRetries |-> 0,
     attempt |-> 0, key |-> "", waitMs |-> 0, timeoutMs |-> 0, result |-> <<>>,
     attempts |-> 0, waits |-> 0, failed |-> 0, outcome |-> "",
     delay |-> <<>>, token |-> <<>>, n |-> 0]

\* GEMINI_KEYS as the environment or keys.dat gives it: nothing checks that
\* there is a key at all
Pools == {<<>>, <<"K1">>, <<"K1", "K2">>}

Init ==
    /\ build \in Builds
    /\ pool = IF build \in {BuildProxy, BuildTranslate} THEN <<"K1", "K2">> ELSE <<>>
    /\ clock = 0
    /\ draws = 0
    /\ validTokens = {}
    /\ proxyUrls = <<>>
    /\ timers = {}
    /\ issuedAt = <<>>
    /\ created = <<>>
    /\ call = NoCall
    /\ last = Response("", 0, NoBody)

-----------------------------------------------------------------------------
(* Access tokens *)

\* generateToken and GET /api/token
IssueTokenWithin(bound) ==
    /\ "token" \in Routes(build)
    /\ CanServe
    /\ Work < bound
    /\ LET token == ToHex(RandomBytes(TokenBytes(build), draws + 1))
       IN  /\ draws' = draws + 1
           /\ validTokens' = validTokens \cup {token}
           /\ timers' = timers \cup
                  {[kind |-> "access", token |-> token, due |-> clock + AccessTtl]}
           /\ issuedAt' = issuedAt @@ (token :> clock)
           /\ last' = Response("token", 200, [NoBody EXCEPT !.token = token])
    /\ UNCHANGED <<build, pool, clock, proxyUrls, created, call>>

IssueToken == IssueTokenWithin(MaxWork)

\* a variant whose callback also drops what the token created
EvictAccessCascade ==
    \E t \in timers :
        /\ t.kind = "access"
        /\ t.due <= clock
        /\ validTokens' = validTokens \ {t.token}
        /\ proxyUrls' = [p \in {q \in DOMAIN proxyUrls :
                                   created[q].by # t.token} |-> proxyUrls[p]]
        /\ timers' = timers \ {t}
        /\ UNCHANGED <<build, pool, clock, draws, issuedAt,
                       created, call, last>>

\* a variant whose callback deletes nothing
EvictAccessKeeps ==
    \E t \in timers :
        /\ t.kind = "access"
        /\ t.due <= clock
        /\ timers' = timers \ {t}
        /\ UNCHANGED <<build, pool, clock, draws, validTokens, proxyUrls,
                       issuedAt, created, call, last>>

\* the callback () => validTokens.delete(token)
EvictAccess ==
    \E t \in timers :
        /\ t.kind = "access"
        /\ t.due <= clock
        /\ validTokens' = validTokens \ {t.token}
        /\ timers' = timers \ {t}
        /\ UNCHANGED <<build, pool, clock, draws, proxyUrls, issuedAt,
                       created, call, last>>

-----------------------------------------------------------------------------
(* Catalog routes *)

CatLower(c) ==
    CASE c = "Arcade" -> "arcade" [] c = "ARCADE" -> "arcade"
      [] c = "Puzzle" -> "puzzle" [] OTHER -> c

\* the query parameters category, page and limit a client may send
ListingInputs ==
    {[category |-> "", page |-> 1, limit |-> 10],
     [category |-> "ARCADE", page |-> 1, limit |-> 10],
     [category |-> "", page |-> 2, limit |-> 1],
     [category |-> "none", page |-> 1, limit |-> 10]}

\* [...new Set(games.map(g => g.category))]
Categories(req) ==
    /\ "categories" \in Routes(build)
    /\ CanServe
    /\ last' = IF GateDenies(build, "categories", req)
               THEN Denied("categories")
               ELSE Response("categories", 200, NoBody)
    /\ UNCHANGED <<build, pool, clock, draws, validTokens, proxyUrls, timers,
                   issuedAt, created, call>>

\* the games a listing returns: filtered by category, and in the build of
\* lines 62-418 cut to one page
Listed(b, category, page, limit) ==
    LET all == [i \in 1..Len(Games) |-> i]
        match(i) == CatLower(Games[i].category) = CatLower(category)
        filtered == IF category = "" THEN all ELSE SelectSeq(all, match)
        start == (page - 1) * limit
    IN  IF b = BuildProxy
        THEN SubSeq(filtered, start + 1, Min(start + limit, Len(filtered)))
        ELSE filtered

\* the real URLs a listing carries: only the build of lines 1-60 has a
\* url field in its items
ListingUrls(b, items) ==
    IF b = BuildOpen
    THEN {Games[items[k]].url : k \in 1..Len(items)} \ {""}
    ELSE {}

\* a variant in which a token is spent by the request it lets through
ListGamesOnce(req, q) ==
    /\ "games" \in Routes(build)
    /\ CanServe
    /\ last' = IF GateDenies(build, "games", req) THEN Denied("games")
               ELSE Response("games", 200, NoBody)
    /\ validTokens' = validTokens \ {PresentedToken(build, req)}
    /\ UNCHANGED <<build, pool, clock, draws, proxyUrls, timers,
                   issuedAt, created, call>>

\* GET /api/games
ListGames(req, q) ==
    /\ "games" \in Routes(build)
    /\ CanServe
    /\ last' = IF GateDenies(build, "games", req) THEN Denied("games")
               ELSE LET items == Listed(build, q.category, q.page, q.limit)
                    IN  Response("games", 200,
                            [NoBody EXCEPT !.items = items,
                                 !.urls = ListingUrls(build, items)])
    /\ UNCHANGED <<build, pool, clock, draws, validTokens, proxyUrls, timers,
                   issuedAt, created, call>>

\* game identifiers a client may name
IdInputs ==
    IF build = BuildProxy
    THEN {Undefined, <<"p", "o", "n", "g">>, <<"c", "a", "f", "e", "-", "2">>,
          <<"d", "e", "m", "o">>, <<"g", "1">>}
    ELSE {Undefined, <<"g", "1">>, <<"g", "3">>, <<"p", "o", "n", "g">>}

\* the real URLs the play page carries: the builds after line 419 put the
\* game's locator in the iframe's src; the build of lines 62-418 leaves the
\* iframe empty and lets the page's script go through /api/proxy
PlayUrls(b, g) == IF b = BuildProxy THEN {} ELSE {g.url} \ {""}

Play(req, id) ==
    /\ "play" \in Routes(build)
    /\ CanServe
    /\ last' = IF GateDenies(build, "play", req) THEN Denied("play")
               ELSE IF FindGame(build, id) = 0
               THEN Response("play", 404, NoBody)
               ELSE Response("play", 200,
                       [NoBody EXCEPT
                           !.urls = PlayUrls(build, Games[FindGame(build, id)])])
    /\ UNCHANGED <<build, pool, clock, draws, validTokens, proxyUrls, timers,
                   issuedAt, created, call>>

-----------------------------------------------------------------------------
(* The proxy indirection: GET /api/proxy and GET /proxy/:token *)

\* process.env.BACKEND_URL || 'https://pvk-bkend.onrender.com'
BackendUrl == "https://pvk-bkend.onrender.com"

\* crypto.randomBytes(16) of a proxy token
ProxyTokenBytes == 16

\* a variant that holds one entry at most
SetEntryKeepFirst(store, token, url) ==
    IF store = <<>> THEN (token :> url) ELSE store

\* the entry proxyUrls.set adds
SetEntry(store, token, url) ==
    [k \in DOMAIN store \cup {token} |-> IF k = token THEN url ELSE store[k]]

\* a variant that empties the store
DeleteEntryClear(store, token) == <<>>

\* proxyUrls.delete(token)
DeleteEntry(store, token) == [k \in DOMAIN store \ {token} |-> store[k]]

CreateProxyWithin(bound, req, id) ==
    /\ "proxy" \in Routes(build)
    /\ CanServe
    /\ LET g == FindGame(build, id)
           tempToken == ToHex(RandomBytes(ProxyTokenBytes, draws + 1))
       IN  IF GateDenies(build, "proxy", req) \/ g = 0 \/ Games[g].url = ""
           THEN /\ last' = IF GateDenies(build, "proxy", req)
                           THEN Denied("proxy")
                           ELSE IF g = 0 THEN Response("proxy", 404, NoBody)
                           ELSE Response("proxy", 400, NoBody)
                /\ UNCHANGED <<draws, proxyUrls, timers, created>>
           ELSE /\ Work < bound
                /\ draws' = draws + 1
                /\ proxyUrls' = SetEntry(proxyUrls, tempToken, Games[g].url)
                /\ timers' = timers \cup
                       {[kind |-> "proxy", token |-> tempToken,
                         due |-> clock + ProxyTtl]}
                /\ created' = created @@
                       (tempToken :> [url |-> Games[g].url, at |-> clock,
                                      game |-> g,
                                      by |-> PresentedToken(build, req)])
                /\ last' = Response("proxy", 200,
                       [NoBody EXCEPT !.base = BackendUrl, !.token = tempToken])
    /\ UNCHANGED <<build, pool, clock, validTokens, issuedAt, call>>

CreateProxy(req, id) == CreateProxyWithin(MaxWork, req, id)

\* the callback () => proxyUrls.delete(tempToken)
EvictProxy ==
    \E t \in timers :
        /\ t.kind = "proxy"
        /\ t.due <= clock
        /\ proxyUrls' = DeleteEntry(proxyUrls, t.token)
        /\ timers' = timers \ {t}
        /\ UNCHANGED <<build, pool, clock, draws, validTokens, issuedAt,
                       created, call, last>>

HexClass == {"a", "b", "c", "d", "e", "f",
             "0", "1", "2", "3", "4", "5", "6", "7", "8", "9"}

\* the number of characters /^[a-f0-9]{32}$/ asks for
ProxyTokenLen == 32

\* /^[a-f0-9]{32}$/.test(token), matched from position pos with n
\* characters of the class already consumed
RECURSIVE MatchHex(_, _, _)
MatchHex(token, pos, n) ==
    IF n = ProxyTokenLen THEN pos = Len(token) + 1
    ELSE /\ pos <= Len(token)
         /\ token[pos] \in HexClass
         /\ MatchHex(token, pos + 1, n + 1)

\* the same with the class [a-fA-F0-9]
RECURSIVE MatchHexAnyCase(_, _, _)
MatchHexAnyCase(token, pos, n) ==
    IF n = ProxyTokenLen THEN pos = Len(token) + 1
    ELSE /\ pos <= Len(token)
         /\ token[pos] \in HexClass \cup {"A", "B", "C", "D", "E", "F"}
         /\ MatchHexAnyCase(token, pos + 1, n + 1)

TokenFormatOkAnyCase(token) == MatchHexAnyCase(token, 1, 0)

\* /^[a-f0-9]{32}$/.test(token)
TokenFormatOk(token) == MatchHex(token, 1, 0)

\* the response of GET /proxy/:token when the store is `store`
ResolveResponse(store, token) ==
    IF ~TokenFormatOk(token) THEN Response("resolve", 400, NoBody)
    ELSE IF token \notin DOMAIN store \/ store[token] = ""
    THEN Response("resolve", 404, [NoBody EXCEPT !.token = token])
    ELSE Response("resolve", 200,
            [NoBody EXCEPT !.token = token, !.urls = {store[token]}])

\* String.prototype.toUpperCase on a hexadecimal digit
UpperHex(c) ==
    CASE c = "a" -> "A" [] c = "b" -> "B" [] c = "c" -> "C" [] c = "d" -> "D"
      [] c = "e" -> "E" [] c = "f" -> "F" [] OTHER -> c

\* malformed variants of a token: cut short, one character longer, with a
\* trailing line feed, in upper case, with a character outside the class
Mangled(t) ==
    {SubSeq(t, 1, Len(t) - 1), t \o <<"0">>, t \o <<"LF">>,
     [i \in 1..Len(t) |-> UpperHex(t[i])],
     [i \in 1..Len(t) |-> IF i = 1 THEN "g" ELSE t[i]]}

\* the :token path parameters a client may send (never empty: the route
\* does not match an empty segment)
ResolveInputs ==
    LET proxyLike == {Forged} \cup DOMAIN created
    IN  proxyLike \cup DOMAIN issuedAt \cup UNION {Mangled(t) : t \in proxyLike}

\* GET /proxy/:token as a one-time redemption
ResolveConsuming(token) ==
    /\ "resolve" \in Routes(build)
    /\ CanServe
    /\ last' = ResolveResponse(proxyUrls, token)
    /\ proxyUrls' = DeleteEntry(proxyUrls, token)
    /\ UNCHANGED <<build, pool, clock, draws, validTokens, timers,
                   issuedAt, created, call>>

Resolve(token) ==
    /\ "resolve" \in Routes(build)
    /\ CanServe
    /\ last' = ResolveResponse(proxyUrls, token)
    /\ UNCHANGED <<build, pool, clock, draws, validTokens, proxyUrls, timers,
                   issuedAt, created, call>>

-----------------------------------------------------------------------------
(* Double-precision arithmetic of the backoff delay *)

\* A fraction in [0, 1) is k / 2^53, written <<hi, lo>> with
\* k = hi * LoUnit + lo; a delay is [whole, hi, lo], the number
\* whole + (hi * LoUnit + lo) / 2^53.
LoUnit == 2 ^ 26
HiUnit == 2 ^ 27

\* Math.random(): 0, 1/2, 1 - 2^-52 and 1 - 2^-53 (the largest
\* double below 1)
RandomSamples ==
    {<<0, 0>>, <<HiUnit \div 2, 0>>,
     <<HiUnit - 1, LoUnit - 2>>, <<HiUnit - 1, LoUnit - 1>>}

\* Math.pow(2, n) + r without rounding
ExactAddPow(n, r) == [whole |-> 2 ^ n, hi |-> r[1], lo |-> r[2]]

\* Math.pow(2, n) + r in IEEE double arithmetic (n >= 0): the sum lies in
\* [2^n, 2^(n+1)], where doubles are 2^(n-52) apart, that is 2^(n+1) units
\* of 2^-53; the sum is rounded to the nearest of them, ties to even.
FloatAddPow(n, r) ==
    LET q == 2 ^ (n + 1)
        rem == r[2] % q
        down == r[2] - rem
        up == (2 * rem > q) \/ (2 * rem = q /\ (down \div q) % 2 = 1)
        lo == IF up THEN down + q ELSE down
        hi == IF lo = LoUnit THEN r[1] + 1 ELSE r[1]
    IN  [whole |-> IF hi = HiUnit THEN 2 ^ n + 1 ELSE 2 ^ n,
         hi |-> IF hi = HiUnit THEN 0 ELSE hi,
         lo |-> IF lo = LoUnit THEN 0 ELSE lo]

\* a variant that counts the attempts from 0
BackoffDelayFromZero(attempt, r) == FloatAddPow(attempt - 1, r)

\* const wait = Math.pow(2, attempt) + Math.random()
BackoffDelay(attempt, r) == FloatAddPow(attempt, r)

\* setTimeout(resolve, wait * 1000): the first whole millisecond at which
\* the wait is over (the fraction is read to 20 bits)
WaitMillis(d) ==
    LET top == d.hi \div (2 ^ 7)
        ms == (top * 1000) \div (2 ^ 20)
        exact == (top * 1000) % (2 ^ 20) = 0 /\ d.hi % (2 ^ 7) = 0 /\ d.lo = 0
    IN  d.whole * 1000 + ms + (IF exact THEN 0 ELSE 1)

-----------------------------------------------------------------------------
(* The response segmenter of GET /api/translate *)

Marker == <<"I", "N", "S", "T", "R", ":">>
DescLabel == <<"D", "E", "S", "C", ":">>

Whitespace == {" ", "LF", "CR", "TAB"}

StartsWith(s, p) == Len(s) >= Len(p) /\ SubSeq(s, 1, Len(p)) = p

Drop(s, n) == SubSeq(s, n + 1, Len(s))

\* the length of a match of /(?:\n|\r\n|\r)?INSTR:/ at the start of s,
\* 0 when there is none
MatchLen(s) ==
    IF StartsWith(s, <<"LF">> \o Marker) THEN 1 + Len(Marker)
    ELSE IF StartsWith(s, <<"CR", "LF">> \o Marker) THEN 2 + Len(Marker)
    ELSE IF StartsWith(s, <<"CR">> \o Marker) THEN 1 + Len(Marker)
    ELSE IF StartsWith(s, Marker) THEN Len(Marker)
    ELSE 0

\* String.prototype.split(/(?:\n|\r\n|\r)?INSTR:/): the pieces between
\* the matches, found from left to right
RECURSIVE SplitFrom(_, _)
SplitFrom(s, piece) ==
    IF s = <<>> THEN <<piece>>
    ELSE IF MatchLen(s) > 0 THEN <<piece>> \o SplitFrom(Drop(s, MatchLen(s)), <<>>)
    ELSE SplitFrom(Tail(s), Append(piece, Head(s)))

Split(s) == SplitFrom(s, <<>>)

\* String.prototype.trim
RECURSIVE Trim(_)
Trim(s) ==
    IF s = <<>> THEN <<>>
    ELSE IF Head(s) \in Whitespace THEN Trim(Tail(s))
    ELSE IF s[Len(s)] \in Whitespace THEN Trim(SubSeq(s, 1, Len(s) - 1))
    ELSE s

\* .replace(/^DESC:/, "")
StripDesc(s) == IF StartsWith(s, DescLabel) THEN Drop(s, Len(DescLabel)) ELSE s

\* the {description, instructions} of the translate response
Segment(translated) ==
    LET parts == Split(translated)
    IN  IF Len(parts) > 1
        THEN [description |-> Trim(StripDesc(parts[1])),
              instructions |-> Trim(parts[2])]
        ELSE [description |-> Trim(StripDesc(translated)),
              instructions |-> <<>>]

-----------------------------------------------------------------------------
(* translateTextGemini and GET /api/translate *)

HasTranslate(b) == b \in {BuildProxy, BuildTranslate}

\* the default of the parameter maxRetries
DefaultMaxRetries(b) == IF b = BuildProxy THEN 3 ELSE 2

\* AbortSignal.timeout(10000) of the build of lines 62-418, ms
FetchTimeout == 10000

\* the query parameter text a client may send
TextInputs ==
    {Undefined, <<>>,
     <<"D", "E", "S", "C", ":", " ", "a", "LF", "I", "N", "S", "T", "R", ":", " ", "b">>}

\* the text of the first candidate in the upstream response
Contents ==
    {<<"D", "E", "S", "C", ":", " ", "x", "CR", "LF", "I", "N", "S", "T", "R", ":", " ", "y">>,
     <<"D", "E", "S", "C", ":", " ", "x", " ">>}

\* how a fetch ends: a 200 with a translation, a status that is not ok, a
\* rejected fetch (the abort of the timeout, a connection that fails), a
\* body that is not JSON, a body without a translation
Outcomes == {"content", "http", "timeout", "badjson", "empty"}

\* what the call keeps of an outcome: a translation, a body without one,
\* or an error thrown by fetch, by the status check or by res.json()
OutcomeClass(outcome) ==
    IF outcome \in {"content", "empty"} THEN outcome ELSE "error"

\* a variant that throws on every body without a translation
TryStepStrict(b, outcome) ==
    IF outcome = "content" THEN "content" ELSE "throw"

\* what the try block does with a fetch that ended that way: return the
\* translation, return the text, or throw into the catch block
TryStep(b, outcome) ==
    IF outcome = "content" THEN "content"
    ELSE IF b = BuildTranslate /\ outcome = "empty" THEN "text"
    ELSE "throw"

\* a variant that rethrows the last error
CatchStepRethrow(b, attempt, maxRetries) ==
    IF attempt = maxRetries THEN "rethrow" ELSE "wait"

\* what the catch block does: return the text, or wait and go on
CatchStep(b, attempt, maxRetries) ==
    IF b = BuildProxy /\ attempt = maxRetries THEN "text" ELSE "wait"

\* the keys getNextKey may return; GEMINI_KEYS[0] of an empty pool is undefined
KeyChoices == IF pool = <<>> THEN {"undefined"} ELSE {pool[i] : i \in 1..Len(pool)}

\* getNextKey and fetch: the call is suspended in an outbound attempt
Attempting(c, n, key) ==
    [c EXCEPT !.pc = "fetching", !.attempt = n, !.key = key,
              !.attempts = c.attempts + 1, !.outcome = "",
              !.delay = <<>>, !.waitMs = 0,
              !.timeoutMs = IF build = BuildProxy THEN FetchTimeout ELSE 0]

\* translateTextGemini returns value.  What a direct call returned stays
\* on record; a call the route made is over once the handler has answered.
Returned(c, value) ==
    IF c.via = "route" THEN [NoCall EXCEPT !.n = c.n]
    ELSE [c EXCEPT !.pc = "done", !.result = value, !.key = "", !.delay = <<>>,
                   !.waitMs = 0, !.timeoutMs = 0]

\* translateTextGemini throws
Threw(c) ==
    IF c.via = "route" THEN [NoCall EXCEPT !.n = c.n]
    ELSE [c EXCEPT !.pc = "threw", !.key = "", !.delay = <<>>,
                   !.waitMs = 0, !.timeoutMs = 0]

\* the handler segments the value and answers
TranslateResponse(value) ==
    LET parts == Segment(value)
    IN  Response("translate", 200,
            [NoBody EXCEPT !.text = <<parts.description, parts.instructions>>])

\* the call as translateTextGemini(text, lang, maxRetries) enters its loop.
\* The prompt, and with it the target language, is not part of the model:
\* the upstream answers any way it likes.
Entered(via, text, maxRetries, token) ==
    [NoCall EXCEPT !.via = via, !.text = text,
                   !.maxRetries = maxRetries, !.token = token,
                   !.n = call.n + 1]

\* GET /api/translate up to its first suspension
Translate(req, text) ==
    /\ "translate" \in Routes(build)
    /\ CanServe
    /\ IF GateDenies(build, "translate", req) \/ Falsy(text)
       THEN /\ last' = IF GateDenies(build, "translate", req)
                       THEN Denied("translate")
                       ELSE Response("translate", 400, NoBody)
            /\ UNCHANGED call
       ELSE /\ call.pc = "idle"
            /\ Work < MaxWork
            /\ \E key \in KeyChoices :
                  call' = Attempting(
                     Entered("route", text, DefaultMaxRetries(build),
                             PresentedToken(build, req)),
                     1, key)
            /\ UNCHANGED last
    /\ UNCHANGED <<build, pool, clock, draws, validTokens, proxyUrls, timers,
                   issuedAt, created>>

\* translateTextGemini(text, lang, maxRetries) called on its own
DirectCall(text, maxRetries) ==
    /\ HasTranslate(build)
    /\ call.pc = "idle"
    /\ IF Falsy(text)
       THEN call' = Returned(Entered("direct", text, maxRetries, <<>>), <<>>)
       ELSE \E key \in KeyChoices :
               call' = Attempting(Entered("direct", text, maxRetries, <<>>),
                                  1, key)
    /\ UNCHANGED <<build, pool, clock, draws, validTokens, proxyUrls, timers,
                   issuedAt, created, last>>

\* a fetch ends; the rest of the loop body runs up to the next suspension
AttemptEnd(outcome, content, r) ==
    /\ call.pc = "fetching"
    /\ LET try == TryStep(build, outcome)
           catch == IF try = "throw"
                    THEN CatchStep(build, call.attempt, call.maxRetries)
                    ELSE "none"
           value == IF try = "content" THEN content ELSE call.text
           d == BackoffDelay(call.attempt, r)
           c == [call EXCEPT !.outcome = OutcomeClass(outcome),
                     !.failed = call.failed + (IF outcome = "content" THEN 0 ELSE 1)]
       IN  /\ call' = IF catch = "wait"
                      THEN [c EXCEPT !.pc = "waiting", !.key = "",
                                     !.timeoutMs = 0, !.delay = d,
                                     !.waits = call.waits + 1,
                                     !.waitMs = WaitMillis(d)]
                      ELSE IF catch = "rethrow" THEN Threw(c)
                      ELSE Returned(c, value)
           /\ last' = IF call.via # "route" \/ catch = "wait" THEN last
                      ELSE IF catch = "rethrow"
                      THEN Response("translate", 500, NoBody)
                      ELSE TranslateResponse(value)
    /\ UNCHANGED <<build, pool, clock, draws, validTokens, proxyUrls, timers,
                   issuedAt, created>>

\* the inputs of AttemptEnd that matter: a translation only on "content",
\* a random number only when the call goes on to wait
AttemptEnds ==
    {<<o, c, r>> \in Outcomes \X Contents \X RandomSamples :
        /\ o # "content" => c = CHOOSE x \in Contents : TRUE
        /\ (TryStep(build, o) # "throw"
            \/ CatchStep(build, call.attempt, call.maxRetries) # "wait")
              => r = <<0, 0>>}

\* a variant that checks the caller's token again before it goes on
BackoffDoneRechecks ==
    /\ call.pc = "waiting"
    /\ IF call.via = "route" /\ ~TokenOk(call.token)
       THEN /\ call' = [NoCall EXCEPT !.n = call.n]
            /\ last' = Denied("translate")
       ELSE IF call.attempt + 1 <= call.maxRetries
       THEN /\ \E key \in KeyChoices :
                  call' = Attempting(call, call.attempt + 1, key)
            /\ UNCHANGED last
       ELSE /\ call' = Returned(call, call.text)
            /\ last' = IF call.via = "route"
                       THEN TranslateResponse(call.text) ELSE last
    /\ UNCHANGED <<build, pool, clock, draws, validTokens, proxyUrls, timers,
                   issuedAt, created>>

\* a variant whose loop condition is tested before attempt++
BackoffDoneOneMore ==
    /\ call.pc = "waiting"
    /\ IF call.attempt <= call.maxRetries
       THEN /\ \E key \in KeyChoices :
                  call' = Attempting(call, call.attempt + 1, key)
            /\ UNCHANGED last
       ELSE /\ call' = Returned(call, call.text)
            /\ last' = IF call.via = "route"
                       THEN TranslateResponse(call.text) ELSE last
    /\ UNCHANGED <<build, pool, clock, draws, validTokens, proxyUrls, timers,
                   issuedAt, created>>

\* the backoff timer fires: attempt++ and the loop condition
BackoffDone ==
    /\ call.pc = "waiting"
    /\ IF call.attempt + 1 <= call.maxRetries
       THEN /\ \E key \in KeyChoices :
                  call' = Attempting(call, call.attempt + 1, key)
            /\ UNCHANGED last
       ELSE /\ call' = Returned(call, call.text)
            /\ last' = IF call.via = "route"
                       THEN TranslateResponse(call.text) ELSE last
    /\ UNCHANGED <<build, pool, clock, draws, validTokens, proxyUrls, timers,
                   issuedAt, created>>

-----------------------------------------------------------------------------
(* Time *)

\* the times at which something is scheduled to happen
Dues == {t.due : t \in timers}

\* the longest step of the clock, ms
TickStep == AccessTtl

\* the clock advances, never past the next scheduled time
Tick ==
    /\ \A d \in Dues : d > clock
    /\ clock < MaxTicks * TickStep \/ Dues # {}
    /\ LET step == clock + TickStep
       IN  clock' = IF Dues = {} THEN step
                    ELSE Min(step, CHOOSE d \in Dues : \A e \in Dues : d <= e)
    /\ UNCHANGED <<build, pool, draws, validTokens, proxyUrls, timers,
                   issuedAt, created, call, last>>

-----------------------------------------------------------------------------

Next ==
    \/ IssueToken
    \/ EvictAccess
    \/ \E req \in Requests : Categories(req)
    \/ \E req \in Requests, q \in ListingInputs : ListGames(req, q)
    \/ \E req \in Requests, id \in IdInputs : Play(req, id)
    \/ \E req \in Requests, id \in IdInputs : CreateProxy(req, id)
    \/ EvictProxy
    \/ \E token \in ResolveInputs : Resolve(token)
    \/ \E req \in Requests, text \in TextInputs : Translate(req, text)
    \/ \E e \in AttemptEnds : AttemptEnd(e[1], e[2], e[3])
    \/ BackoffDone
    \/ Tick

Spec == Init /\ [][Next]_vars

-----------------------------------------------------------------------------
(* translateTextGemini on its own, with any maxRetries *)

CallInit ==
    /\ build \in {BuildProxy, BuildTranslate}
    /\ pool \in Pools
    /\ clock = 0
    /\ draws = 0
    /\ validTokens = {}
    /\ proxyUrls = <<>>
    /\ timers = {}
    /\ issuedAt = <<>>
    /\ created = <<>>
    /\ call = NoCall
    /\ last = Response("", 0, NoBody)

CallNext ==
    \/ \E text \in TextInputs \cup {<<"h", "i">>},
          maxRetries \in 1..MaxRetriesTried :
          DirectCall(text, maxRetries)
    \/ \E e \in AttemptEnds : AttemptEnd(e[1], e[2], e[3])
    \/ BackoffDone

CallSpec == CallInit /\ [][CallNext]_vars

\* every fetch ends and every backoff timer fires
FairCallSpec ==
    /\ CallSpec
    /\ WF_vars(\E e \in AttemptEnds : AttemptEnd(e[1], e[2], e[3]))
    /\ WF_vars(BackoffDone)

-----------------------------------------------------------------------------
(* The end of the /api/translate handler on its own: translateTextGemini  *)
(* has returned a text, the handler segments it and answers               *)

\* how many pieces a returned text is made of
MaxPieces == 3

Pieces == {DescLabel, Marker, <<"LF">>, <<"CR">>, <<" ">>, <<"a">>}

RECURSIVE Concat(_)
Concat(ps) == IF ps = <<>> THEN <<>> ELSE Head(ps) \o Concat(Tail(ps))

\* the texts translateTextGemini may return to the handler: never empty,
\* the handler has refused an empty text and an empty translation is
\* no translation
RawTexts == {Concat(ps) : ps \in UNION {[1..n -> Pieces] : n \in 1..MaxPieces}}

AnswerTranslation(translated) ==
    /\ HasTranslate(build)
    /\ call.pc = "idle"
    /\ call.n = 0
    /\ call' = [NoCall EXCEPT !.via = "route", !.pc = "done",
                              !.result = translated, !.n = 1]
    /\ last' = TranslateResponse(translated)
    /\ UNCHANGED <<build, pool, clock, draws, validTokens, proxyUrls, timers,
                   issuedAt, created>>

SegmentInit == CallInit /\ Len(pool) = 2

SegmentNext == \E translated \in RawTexts : AnswerTranslation(translated)

SegmentSpec == SegmentInit /\ [][SegmentNext]_vars

-----------------------------------------------------------------------------
(* The two stores on their own: issuing, validating, creating, resolving  *)
(* and evicting, in the builds that have a gate                           *)

\* the tokens and proxy entries a run of the stores may create
MaxStoreWork == 3

StoreInit == Init /\ build # BuildOpen

StoreNext ==
    \/ IssueTokenWithin(MaxStoreWork)
    \/ EvictAccess
    \/ \E req \in Requests, q \in ListingInputs : ListGames(req, q)
    \/ \E req \in Requests, id \in IdInputs :
          CreateProxyWithin(MaxStoreWork, req, id)
    \/ EvictProxy
    \/ \E token \in ResolveInputs : Resolve(token)
    \/ Tick

StoreSpec == StoreInit /\ [][StoreNext]_vars

\* the tokens and proxy entries of a run long enough for an entry to be
\* evicted and another to be created after it
MaxIndirectionWork == 4

\* the build that has the indirection store (lines 62-418)
IndirectionInit == Init /\ build = BuildProxy

IndirectionNext ==
    \/ IssueTokenWithin(MaxIndirectionWork)
    \/ EvictAccess
    \/ \E req \in Requests, id \in IdInputs :
          CreateProxyWithin(MaxIndirectionWork, req, id)
    \/ EvictProxy
    \/ \E token \in ResolveInputs : Resolve(token)
    \/ Tick

IndirectionSpec == IndirectionInit /\ [][IndirectionNext]_vars

\* a due timer callback runs, and time goes on
FairStoreSpec ==
    /\ StoreSpec
    /\ WF_vars(EvictAccess)
    /\ WF_vars(EvictProxy)
    /\ WF_vars(Tick)

-----------------------------------------------------------------------------
(* The access gate *)

\* absent, empty, or not currently in the valid set
NotValid(token) ==
    token = Undefined \/ token = <<>> \/ token \notin validTokens

\* a gated route serves the request req
ServesGated(req) ==
    \/ "categories" \in Gated(build) /\ Categories(req)
    \/ "games" \in Gated(build) /\ \E q \in ListingInputs : ListGames(req, q)
    \/ "play" \in Gated(build) /\ \E id \in IdInputs : Play(req, id)
    \/ "proxy" \in Gated(build) /\ \E id \in IdInputs : CreateProxy(req, id)
    \/ "translate" \in Gated(build) /\ \E text \in TextInputs : Translate(req, text)

\* C1: a gated operation asked for with an access token that is absent,
\* empty or not in the valid set answers authorization-denied (403) and
\* does nothing else: no proxy entry is added, no upstream attempt is
\* started, and both stores and their timers stay as they were.
C1_DeniedDoesNothing ==
    [][\A req \in Requests :
          (NotValid(PresentedToken(build, req)) /\ ServesGated(req))
          => /\ last'.status = 403
             /\ UNCHANGED <<validTokens, proxyUrls, timers, issuedAt, created,
                            draws, call>>]_vars

\* a gated route has turned down a token that was valid once and has expired
C1_Witness ==
    /\ last.status = 403
    /\ last.op \in {"proxy", "translate", "play"}
    /\ DOMAIN issuedAt # {}
    /\ validTokens = {}

-----------------------------------------------------------------------------
(* Lifetimes of the two kinds of token *)

FiveMinutes == 5 * 60 * 1000

FifteenMinutes == 15 * 60 * 1000

\* C2: at every moment a request can be served, an issued access token
\* validates exactly while fewer than 5 minutes have passed since it was
\* issued; and a token that has left the valid set never returns to it.
C2_ValidForFiveMinutes ==
    /\ [](CanServe =>
            \A t \in DOMAIN issuedAt :
                TokenOk(t) <=> clock < issuedAt[t] + FiveMinutes)
    /\ [][\A t \in DOMAIN issuedAt :
              t \notin validTokens => t \notin validTokens']_vars

\* one token has expired and a younger one is still valid
C2_Witness ==
    /\ CanServe
    /\ \E t \in DOMAIN issuedAt :
          clock >= issuedAt[t] + FiveMinutes /\ ~TokenOk(t)
    /\ \E t \in DOMAIN issuedAt :
          clock < issuedAt[t] + FiveMinutes /\ TokenOk(t)

\* C3: at every moment a request can be served, resolving a proxy token
\* that create-indirection handed out answers with exactly the URL of the
\* game it was created for while fewer than 15 minutes have passed since
\* its creation, and with not-found (404) from then on.
C3_ResolveUntilExpiry ==
    CanServe =>
        \A p \in DOMAIN created :
            LET r == ResolveResponse(proxyUrls, p)
            IN  IF clock < created[p].at + FifteenMinutes
                THEN r.status = 200 /\ r.urls = {Games[created[p].game].url}
                ELSE r.status = 404 /\ r.urls = {}

\* a proxy token that was created is resolved, past its 15 minutes, to
\* not-found
C3_Witness ==
    /\ last.op = "resolve" /\ last.status = 404
    /\ last.token \in DOMAIN created
    /\ clock >= created[last.token].at + FifteenMinutes

-----------------------------------------------------------------------------
(* Resolving a proxy token *)

\* exactly 32 lowercase hexadecimal characters
IsLowerHex32(t) == Len(t) = 32 /\ \A i \in 1..Len(t) : t[i] \in HexClass

\* absent from what create-indirection handed out, or past its 15 minutes
AbsentOrExpired(t) ==
    t \notin DOMAIN created \/ clock >= created[t].at + FifteenMinutes

\* C4: whatever the store holds, resolve answers format-error (400) on a
\* token that is not exactly 32 lowercase hexadecimal characters, never
\* not-found and never a target; on a well-formed token that is absent or
\* expired it answers not-found (404), never format-error.
C4_FormatErrorOrNotFound ==
    /\ \A t \in ResolveInputs :
          LET r == ResolveResponse(proxyUrls, t)
          IN  /\ ~IsLowerHex32(t) => r.status = 400 /\ r.urls = {}
              /\ (CanServe /\ IsLowerHex32(t) /\ AbsentOrExpired(t))
                    => r.status = 404
    /\ (last.op = "resolve" /\ last.status \in {200, 404})
          => IsLowerHex32(last.token)
    /\ (last.op = "resolve" /\ last.status = 400) => last.urls = {}

\* a malformed token was refused while the store held a live entry
C4_Witness ==
    /\ last.op = "resolve" /\ last.status = 400
    /\ DOMAIN proxyUrls # {}
    /\ \E t \in DOMAIN proxyUrls : \E m \in Mangled(t) : ~TokenFormatOk(m)

\* C10: a successful resolve changes neither the store nor any timer, so
\* resolving the same token again at once gives the same answer; the entry
\* and its scheduled eviction are as they were.
C10_ResolveReadsOnly ==
    [][\A t \in ResolveInputs :
          (last'.status = 200 /\ Resolve(t))
          => /\ proxyUrls' = proxyUrls
             /\ timers' = timers
             /\ ResolveResponse(proxyUrls', t) = last'
             /\ \E tm \in timers' :
                   /\ tm.kind = "proxy" /\ tm.token = t
                   /\ tm.due = created[t].at + FifteenMinutes]_vars

\* a live proxy token has been resolved to its target some time after it
\* was created, and its entry and its timer are still there
C10_Witness ==
    /\ last.op = "resolve" /\ last.status = 200
    /\ last.token \in DOMAIN proxyUrls
    /\ clock > created[last.token].at
    /\ \E tm \in timers : tm.kind = "proxy" /\ tm.token = last.token

-----------------------------------------------------------------------------
(* Where the real URL of a game appears *)

\* C5: a response carries the real URL of a game only if it is the answer
\* of resolve to a proxy token (live when resolve answered 200, by
\* ResolveResponse) that create-indirection handed out to
\* a request with a valid access token for an existing game; no listing,
\* play page or create-indirection response carries a real URL.
C5_RealUrlOnlyByResolve ==
    (last.urls \cap RealUrls # {}) =>
        /\ last.op = "resolve"
        /\ last.token \in DOMAIN created
        /\ created[last.token].by \in DOMAIN issuedAt
        /\ created[last.token].game \in 1..Len(Games)
        /\ last.urls = {Games[created[last.token].game].url}

\* a listing or a play page has answered with a real URL in it
C5_Witness ==
    /\ last.op \in {"games", "play"}
    /\ last.status = 200
    /\ last.urls \cap RealUrls # {}

\* the same guarantee for the build of lines 62-418 alone
C5_ProxyBuildOnly == build = BuildProxy => C5_RealUrlOnlyByResolve

-----------------------------------------------------------------------------
(* The resilient caller *)

\* every outbound attempt of the call so far has failed
AllFailed == call.attempts >= 1 /\ call.failed = call.attempts

\* C6: with a pool of one key, a non-empty text and maxRetries >= 1, a
\* call whose every attempt failed has made exactly maxRetries attempts
\* and has returned the text it was given.
C6_ExhaustsAllAttempts ==
    (call.pc = "done" /\ Len(pool) = 1 /\ ~Falsy(call.text)
        /\ call.maxRetries >= 1 /\ AllFailed)
    => (call.attempts = call.maxRetries /\ call.result = call.text)

\* a call with attempts to spare has returned after one failed attempt
C6_Witness ==
    /\ call.pc = "done" /\ Len(pool) = 1 /\ AllFailed
    /\ call.attempts < call.maxRetries
    /\ call.result = call.text

\* the same statement for the calls that no body without a translation
\* has ended
C6_ExceptEmptyBody ==
    (build = BuildTranslate => call.outcome # "empty")
    => C6_ExhaustsAllAttempts

\* what a finished call may have returned when a missing text counts as
\* the empty string
ReturnedValues ==
    Contents \cup {IF Falsy(call.text) THEN <<>> ELSE call.text}

C8_EmptyBodyRetried ==
    (call.pc = "done" /\ call.outcome = "empty")
    => call.attempt = call.maxRetries

\* a body without a translation has ended a call that had attempts left
C8_Witness ==
    /\ call.pc = "done" /\ call.outcome = "empty"
    /\ call.attempt < call.maxRetries
    /\ call.result = call.text

-----------------------------------------------------------------------------
(* The backoff delay *)

\* a delay is less than another, both written [whole, hi, lo]
DelayLess(a, b) ==
    \/ a.whole < b.whole
    \/ a.whole = b.whole /\ a.hi < b.hi
    \/ a.whole = b.whole /\ a.hi = b.hi /\ a.lo < b.lo

\* 2^n <= d <= 2^n + 1 for a delay d
WithinOneSecond(d, n) ==
    \/ d.whole = 2 ^ n
    \/ d.whole = 2 ^ n + 1 /\ d.hi = 0 /\ d.lo = 0

\* C9 as stated: the delay d after failed attempt n satisfies
\* 2^n <= d < 2^n + 1, so that its whole-second part is exactly 2^n.
C9_DelayBelowNextSecond ==
    call.pc = "waiting" => call.delay.whole = 2 ^ call.attempt

\* C9: the delay d after failed attempt n satisfies 2^n <= d <= 2^n + 1
\* (the sum is rounded to a double, which may be 2^n + 1 itself), and it
\* is greater than any delay the attempt before could have waited.
C9_DelayWithinOneSecond ==
    call.pc = "waiting" =>
        /\ WithinOneSecond(call.delay, call.attempt)
        /\ call.attempt >= 2 =>
              \A r \in RandomSamples :
                  DelayLess(BackoffDelay(call.attempt - 1, r), call.delay)

\* a call waits exactly 2^n + 1 seconds after its attempt n
C9_Witness ==
    /\ call.pc = "waiting"
    /\ call.attempt >= 2
    /\ call.delay.whole = 2 ^ call.attempt + 1

\* a delay that is less than the double of one the attempt before could
\* have waited: 4.0 s after 2.5 s
C9_NotDoubled ==
    /\ call.pc = "waiting" /\ call.attempt = 2
    /\ call.delay = [whole |-> 4, hi |-> 0, lo |-> 0]
    /\ BackoffDelay(1, <<HiUnit \div 2, 0>>)
          = [whole |-> 2, hi |-> HiUnit \div 2, lo |-> 0]

-----------------------------------------------------------------------------
(* The valid set under validation and eviction *)

\* the pending evictions of access tokens, each with its due time
AccessTimers == {t \in timers : t.kind = "access"}

\* C11: a step in which a gated route validates a token, whether it lets
\* the request through or denies it, leaves the valid set and every access
\* token's scheduled eviction as they were: a step that changes either is
\* no such step.  So the token validates again, and its due time is the
\* one set when it was issued.
C11_ValidateChangesNothing ==
    [][(validTokens' # validTokens \/ AccessTimers' # AccessTimers)
          => ~(\E req \in Requests : ServesGated(req))]_vars

\* a token has passed the gate some time after it was issued; it is still
\* valid and its eviction is still due 5 minutes after the issue
C11_Witness ==
    /\ last.op \in {"games", "categories", "play"} /\ last.status = 200
    /\ \E t \in validTokens :
          /\ clock > issuedAt[t]
          /\ [kind |-> "access", token |-> t,
              due |-> issuedAt[t] + FiveMinutes] \in timers

\* the pending evictions of proxy entries
ProxyTimers == {t \in timers : t.kind = "proxy"}

\* C12: the eviction of an access token removes that token from the valid
\* set, and every other token is in the set after it exactly if it was
\* before, with its eviction scheduled as before; the eviction of a proxy
\* entry removes that entry, and every other entry is in the store after
\* it as before, with the same URL and the same scheduled eviction.
\* Neither eviction touches the other store.
C12_EvictsOnlyItsOwn ==
    /\ [][EvictAccess =>
            \E tm \in AccessTimers :
                /\ tm.due <= clock
                /\ tm.token \notin validTokens'
                /\ \A u \in (validTokens \cup validTokens') \ {tm.token} :
                      u \in validTokens /\ u \in validTokens'
                /\ AccessTimers' = AccessTimers \ {tm}
                /\ ProxyTimers' = ProxyTimers
                /\ proxyUrls' = proxyUrls]_vars
    /\ [][EvictProxy =>
            \E tm \in ProxyTimers :
                /\ tm.due <= clock
                /\ tm.token \notin DOMAIN proxyUrls'
                /\ \A q \in (DOMAIN proxyUrls \cup DOMAIN proxyUrls') \ {tm.token} :
                      /\ q \in DOMAIN proxyUrls /\ q \in DOMAIN proxyUrls'
                      /\ proxyUrls'[q] = proxyUrls[q]
                /\ ProxyTimers' = ProxyTimers \ {tm}
                /\ AccessTimers' = AccessTimers
                /\ validTokens' = validTokens]_vars

\* one proxy entry has been evicted and another is still in the store,
\* with its URL and its timer
C12_Witness ==
    \E p, q \in DOMAIN created :
        /\ p \notin DOMAIN proxyUrls
        /\ q \in DOMAIN proxyUrls
        /\ proxyUrls[q] = created[q].url
        /\ \E tm \in ProxyTimers : tm.token = q

\* one access token has been evicted and another is still valid
C12_WitnessAccess ==
    \E t, u \in DOMAIN issuedAt :
        /\ t \notin validTokens
        /\ u \in validTokens
        /\ \E tm \in AccessTimers : tm.token = u

\* every token issued so far is past its 5 minutes
AllElapsed == \A t \in DOMAIN issuedAt : clock >= issuedAt[t] + FiveMinutes

\* a step that adds a token to the valid set
Issues == \E t \in validTokens' : t \notin validTokens

\* C13: whenever every issued token is past its 5 minutes the valid set
\* becomes empty; and in a run in which issuing stops, the valid set is
\* empty from some moment on, for good.
C13_StoreEmpties ==
    /\ AllElapsed ~> (validTokens = {})
    /\ (<>[][~Issues]_vars) => <>[](validTokens = {})

\* issued tokens have expired at different times, and the valid set is
\* empty with no eviction left to run
C13_Witness ==
    /\ validTokens = {}
    /\ AccessTimers = {}
    /\ \E t, u \in DOMAIN issuedAt : issuedAt[t] < issuedAt[u]
    /\ AllElapsed

\* C14: every member of the valid set is a value generateToken returned
\* earlier, and no request can be served while a member is past its 5
\* minutes; no value that was never issued validates, be it absent,
\* empty, forged or a proxy token.
C14_OnlyIssuedUnexpired ==
    /\ \A t \in validTokens :
          /\ t \in DOMAIN issuedAt
          /\ clock <= issuedAt[t] + FiveMinutes
          /\ CanServe => clock < issuedAt[t] + FiveMinutes
    /\ \A x \in TokenInputs \cup DOMAIN created :
          TokenOk(x) => x \in DOMAIN issuedAt

\* a request was denied while every token issued so far was still valid:
\* what it presented had never been issued
C14_Witness ==
    /\ last.status = 403
    /\ validTokens # {}
    /\ validTokens = DOMAIN issuedAt

-----------------------------------------------------------------------------
(* GET /api/translate without a text *)

\* C15: translate asked for without a text, or with an empty one, answers
\* at once: input-validation error (400) when the access token is valid,
\* authorization-denied (403) when it is not; in both cases no call of the
\* translator starts, so there is no upstream attempt and no backoff.
C15_MissingTextRefused ==
    [][\A req \in Requests : \A text \in {Undefined, <<>>} :
          Translate(req, text)
          => /\ last'.op = "translate"
             /\ last'.status = IF NotValid(PresentedToken(build, req))
                               THEN 403 ELSE 400
             /\ call' = call]_vars

\* a request with a valid token and no text was refused, and no call of
\* the translator has ever started
C15_Witness ==
    /\ last.op = "translate" /\ last.status = 400
    /\ validTokens # {}
    /\ call.n = 0 /\ call.pc = "idle"

-----------------------------------------------------------------------------
(* GET /api/proxy *)

\* C16: create-indirection adds an entry to the store exactly when it
\* answers with a reference.  For an unknown game or a game without a URL
\* it answers with an error, and neither the store nor the timers change.
\* When it answers with a reference, the store gains one entry under a
\* token never used before, mapped to the URL of the game; its eviction
\* is scheduled 15 minutes on; nothing else in the store changes; and the
\* reference is made of the configured base address and that token.
C16_EntryIffReference ==
    [][\A req \in Requests : \A id \in IdInputs :
          CreateProxyWithin(MaxStoreWork, req, id)
          => LET g == FindGame(build, id)
                 ok == last'.status = 200
             IN  /\ last'.op = "proxy"
                 /\ ok <=> proxyUrls' # proxyUrls
                 /\ (g = 0 \/ Games[g].url = "") => last'.status \in {403, 404, 400}
                 /\ ~ok => /\ last'.token = <<>> /\ last'.base = ""
                           /\ proxyUrls' = proxyUrls
                           /\ timers' = timers
                 /\ ok => \E p \in DOMAIN proxyUrls' \ DOMAIN proxyUrls :
                             /\ p \notin DOMAIN created
                             /\ DOMAIN proxyUrls' = DOMAIN proxyUrls \cup {p}
                             /\ proxyUrls'[p] = Games[g].url
                             /\ \A q \in DOMAIN proxyUrls :
                                   proxyUrls'[q] = proxyUrls[q]
                             /\ timers' = timers \cup
                                   {[kind |-> "proxy", token |-> p,
                                     due |-> clock + FifteenMinutes]}
                             /\ last'.base = BackendUrl
                             /\ last'.token = p]_vars

\* a second entry has been added next to one already in the store
C16_Witness ==
    /\ last.op = "proxy" /\ last.status = 200
    /\ last.token \in DOMAIN proxyUrls
    /\ Cardinality(DOMAIN proxyUrls) = 2

\* a game without a URL was refused while the store held an entry
C16_WitnessRefused ==
    /\ last.op = "proxy" /\ last.status = 400
    /\ validTokens # {}
    /\ DOMAIN proxyUrls # {}

-----------------------------------------------------------------------------
(* The segmenter *)

\* where "INSTR:" first occurs in s, 0 when it does not
FirstMarker(s) ==
    LET at == {i \in 1..Len(s) : StartsWith(Drop(s, i - 1), Marker)}
    IN  IF at = {} THEN 0 ELSE CHOOSE i \in at : \A j \in at : i <= j

\* the text before position i, the text after the marker at position i
Before(s, i) == SubSeq(s, 1, i - 1)

After(s, i) == Drop(s, i - 1 + Len(Marker))

\* the handler has answered with the segments of call.result
Answered == call.pc = "done" /\ call.via = "route" /\ last.op = "translate"

\* C17: for a text with the marker "INSTR:", partA is the text before the
\* first marker without a leading "DESC:", trimmed, and partB is all of
\* the text after that marker, trimmed, also when the marker occurs again;
\* without the marker partA is the whole text without a leading "DESC:",
\* trimmed, and partB is empty.
C17_SegmentsAtFirstMarker ==
    Answered =>
        LET s == call.result
            i == FirstMarker(s)
        IN  IF i > 0
            THEN last.text = <<Trim(StripDesc(Before(s, i))), Trim(After(s, i))>>
            ELSE last.text = <<Trim(StripDesc(s)), <<>>>>

\* a text with two markers has been segmented, and partB is not all of
\* the text after the first one
C17_Witness ==
    /\ Answered
    /\ FirstMarker(call.result) > 0
    /\ FirstMarker(After(call.result, FirstMarker(call.result))) > 0
    /\ last.text[2] # Trim(After(call.result, FirstMarker(call.result)))

\* what the handler does: partB ends where the marker occurs again
C17_UpToSecondMarker ==
    Answered =>
        LET s == call.result
            i == FirstMarker(s)
            rest == After(s, i)
            j == FirstMarker(rest)
        IN  IF i > 0
            THEN last.text = <<Trim(StripDesc(Before(s, i))),
                               Trim(IF j > 0 THEN Before(rest, j) ELSE rest)>>
            ELSE last.text = <<Trim(StripDesc(s)), <<>>>>

-----------------------------------------------------------------------------
(* The attempts of a call *)

\* C18: while a call is attempting or waiting its attempt number is from 1
\* to maxRetries and equals the number of attempts made; the number only
\* ever goes up, by exactly 1, the first attempt being number 1.  An
\* attempt that gets a translation ends the call at once with that
\* translation: no attempt and no wait follow, and a call that has ended
\* does nothing more.
C18_AttemptsCountUp ==
    /\ [](call.pc \in {"fetching", "waiting"} =>
            /\ call.attempt \in 1..call.maxRetries
            /\ call.attempts = call.attempt)
    /\ [][/\ call'.attempt \in {call.attempt, call.attempt + 1}
          /\ (call.pc = "idle" /\ call'.pc = "fetching") => call'.attempt = 1
          /\ (call.pc = "fetching" /\ call'.outcome = "content")
                => /\ call'.pc = "done"
                   /\ call'.result \in Contents
                   /\ call'.attempts = call.attempts
                   /\ call'.waits = call.waits
          /\ call.pc = "done" => call' = call]_vars

\* the second attempt of a call got a translation and the call has ended
\* with it, after the one wait that followed the first attempt
C18_Witness ==
    /\ call.pc = "done" /\ call.outcome = "content"
    /\ call.attempt = 2 /\ call.attempt < call.maxRetries
    /\ call.attempts = 2 /\ call.waits = 1
    /\ call.result \in Contents

\* C19: a call waits only after a failed attempt that leaves attempts to
\* make, so a call that has failed on all of its maxRetries attempts has
\* waited maxRetries - 1 times and returns the text with no wait after
\* the last attempt.
C19_NoWaitAfterLastAttempt ==
    /\ call.pc = "waiting" => call.attempt < call.maxRetries
    /\ (call.pc = "done" /\ AllFailed /\ call.attempts = call.maxRetries)
          => call.waits = call.maxRetries - 1

\* a call waits after its last attempt has failed
C19_Witness ==
    /\ call.pc = "waiting"
    /\ call.attempt = call.maxRetries
    /\ call.waits = call.maxRetries
    /\ call.outcome = "error"

\* the same statement for the build of lines 62-418 alone
C19_ProxyBuildOnly == build = BuildProxy => C19_NoWaitAfterLastAttempt

-----------------------------------------------------------------------------
(* The two lifetimes *)

\* C20: once the access token that created a proxy entry is no longer
\* valid, resolve still answers with the target for as long as fewer than
\* 15 minutes have passed since the entry was created; and resolve is not
\* behind the gate: it can be served with the valid set empty.
C20_OutlivesItsAccessToken ==
    /\ "resolve" \notin Gated(build)
    /\ CanServe =>
          \A p \in DOMAIN created :
              (/\ ~TokenOk(created[p].by)
               /\ clock < created[p].at + FifteenMinutes)
              => /\ ResolveResponse(proxyUrls, p).status = 200
                 /\ ResolveResponse(proxyUrls, p).urls = {created[p].url}
                 /\ ENABLED Resolve(p)

\* a proxy token has been resolved to its target with the valid set
\* empty, its creating access token expired
C20_Witness ==
    /\ last.op = "resolve" /\ last.status = 200
    /\ last.token \in DOMAIN created
    /\ clock >= issuedAt[created[last.token].by] + FiveMinutes
    /\ clock < created[last.token].at + FifteenMinutes
    /\ validTokens = {}

-----------------------------------------------------------------------------
(* The indirection store's entries *)

\* C21: every proxy token in the store maps to one target, the one it was
\* created with; no step changes the target of a token that stays in the
\* store; and a create never stores a token value that was created before,
\* evicted values included.
C21_OneTargetNeverReused ==
    /\ [](\A p \in DOMAIN proxyUrls :
              /\ p \in DOMAIN created
              /\ proxyUrls[p] = created[p].url
              /\ Cardinality({t \in timers : t.kind = "proxy" /\ t.token = p}) = 1)
    /\ [][/\ \A p \in DOMAIN proxyUrls \cap DOMAIN proxyUrls' :
                 proxyUrls'[p] = proxyUrls[p]
          /\ \A p \in DOMAIN proxyUrls' \ DOMAIN proxyUrls :
                 p \notin DOMAIN created]_vars

\* an entry has been evicted and an entry created after that is in the
\* store, for another game
C21_Witness ==
    \E p, q \in DOMAIN created :
        /\ p \notin DOMAIN proxyUrls
        /\ q \in DOMAIN proxyUrls
        /\ created[q].at >= created[p].at + FifteenMinutes
        /\ created[q].url # created[p].url

-----------------------------------------------------------------------------
(* The key pool *)

\* the keys of the pool
PoolKeys == {pool[i] : i \in 1..Len(pool)}

\* C22: the pool is non-empty and no step changes it; the key of every
\* attempt is a member of the pool; and each attempt selects afresh: after
\* a wait every key of the pool can be the next attempt's, whatever the
\* attempt before used.
C22_KeysFromNonEmptyPool ==
    /\ [](pool # <<>>)
    /\ [](call.pc = "fetching" => call.key \in PoolKeys)
    /\ [](call.pc = "waiting" /\ call.attempt < call.maxRetries
             => \A k \in PoolKeys : ENABLED (BackoffDone /\ call'.key = k))
    /\ [][pool' = pool]_vars

\* an attempt is under way with no key: the pool is empty and getNextKey
\* returned undefined
C22_Witness ==
    /\ pool = <<>>
    /\ call.pc = "fetching"
    /\ call.key = "undefined"
    /\ call.key \notin PoolKeys

\* the same statement for the processes that start with a key
C22_WhenPoolNonEmpty ==
    /\ [](pool # <<>> /\ call.pc = "fetching" => call.key \in PoolKeys)
    /\ [](pool # <<>> /\ call.pc = "waiting" /\ call.attempt < call.maxRetries
             => \A k \in PoolKeys : ENABLED (BackoffDone /\ call'.key = k))
    /\ [][pool' = pool]_vars

\* the second attempt of a call uses the key the first attempt used
C22_SameKeyAgain ==
    /\ Len(pool) = 1
    /\ call.pc = "fetching"
    /\ call.attempt = 2
    /\ call.key = pool[1]

-----------------------------------------------------------------------------
(* A translate request whose token expires under way *)

\* the call the route made is suspended in a fetch or in a backoff wait
InFlight == call.via = "route" /\ call.pc \in {"fetching", "waiting"}

\* C23: the gate looks at the token once, on entry.  The eviction of a
\* token leaves the call under way as it is; a call whose token is no
\* longer valid can take its next step, and that step is the next attempt
\* or wait of the same call, in order and within maxRetries, or the
\* answer 200 with the segmented translation or the segmented input text.
C23_InFlightCallGoesOn ==
    /\ [][validTokens' # validTokens => call' = call]_vars
    /\ [](InFlight /\ ~TokenOk(call.token) =>
             IF call.pc = "waiting" THEN ENABLED BackoffDone
             ELSE ENABLED (\E e \in AttemptEnds : AttemptEnd(e[1], e[2], e[3])))
    /\ [][(call' # call /\ InFlight /\ ~TokenOk(call.token)) =>
             \/ /\ call'.via = "route"
                /\ call'.pc \in {"fetching", "waiting"}
                /\ call'.token = call.token
                /\ call'.text = call.text
                /\ call'.attempt \in {call.attempt, call.attempt + 1}
                /\ call'.attempt <= call.maxRetries
                /\ last' = last
             \/ /\ call'.pc = "idle"
                /\ \E v \in Contents \cup {call.text} :
                      last' = TranslateResponse(v)]_vars

\* the token of a request has been evicted and its call is in a later
\* attempt
C23_Witness ==
    /\ InFlight
    /\ call.pc = "fetching"
    /\ call.attempt >= 2
    /\ call.token \in DOMAIN issuedAt
    /\ call.token \notin validTokens
    /\ clock >= issuedAt[call.token] + FiveMinutes

====
